---- MODULE Spec2Model ----
(***************************************************************************)
(* A model of helio_mkmovie.py: get_png (the acquisition loop with its     *)
(* rotation-compensated x-offset, skip check and skip-ahead cursor) and    *)
(* mk_movie (per-channel encoding and the tiled composite).                *)
(*                                                                         *)
(* Instants are whole seconds counted from 00:00:00 of the day the first   *)
(* window starts on.  Angles are fixed-point integers in micro-arcseconds, *)
(* rotation rates in micro-degrees per day: the code's float arithmetic is *)
(* rendered exactly up to that resolution, without float rounding.         *)
(***************************************************************************)
EXTENDS Integers, Sequences, FiniteSets, TLC

VARIABLES
    script,        \* the get_png calls the driver program makes, in order
    calls,         \* number of get_png calls made so far
    pc,            \* position inside get_png: "idle", "for_wv", "download"
    startdt,       \* get_png: startdt                       (line 86)
    enddt,         \* get_png: enddt                         (line 87)
    wavelength,    \* get_png: wavelength, as str(wv) values (line 26)
    skipdays,      \* get_png: skipdays                      (lines 32, 135)
    skiphours,     \* get_png: skiphours                     (lines 33, 136)
    xcenterinit,   \* get_png: xcenterinit                   (line 83)
    ycenter,       \* get_png: ycenter after conversion      (line 81)
    xoffset,       \* get_png: xoffset, arcsec per 12 s      (line 114)
    wi,            \* get_png: index of wv in wavelength     (line 117)
    xcenter,       \* get_png: the running xcenter           (lines 123-141)
    t,             \* get_png: next instant rrule yields     (line 139)
    dirs,          \* the file system: directories
    files,         \* the file system: png files
    requests,      \* every hv.download_png request issued so far, in order
    passes,        \* every channel pass begun so far (a channel that is not
                   \* skipped), in order, with the values it began with
    mpc,           \* position inside mk_movie
    mode,          \* mk_movie: mode
    mwavelength,   \* mk_movie: wavelength, as str(wv) values
    timestamp,     \* mk_movie: timestamp
    wavestamp,     \* mk_movie: wavestamp
    mi,            \* mk_movie: index of wv in wavelength    (line 290)
    readin,        \* mk_movie: readin, the list of -i inputs
    outdirs,       \* the file system: output directories made by mk_movie
    invocations,   \* every subprocess.call made so far, in order
    raised         \* mk_movie raised an Exception

acqvars == <<script, calls, pc, startdt, enddt, wavelength, skipdays, skiphours,
             xcenterinit, ycenter, xoffset, wi, xcenter, t, dirs, files,
             requests, passes>>
movvars == <<mpc, mode, mwavelength, timestamp, wavestamp, mi, readin, outdirs,
             invocations, raised>>
vars == <<acqvars, movvars>>

----------------------------------------------------------------------------
(* Bounds of the model. *)

\* largest skipdays a driver passes
MaxSkipDays == 1
\* largest skiphours a driver passes
MaxSkipHours == 2
\* the window ends up to 12 * MaxTailSteps seconds after its first instant
MaxTailSteps == 3

----------------------------------------------------------------------------
(* datetime *)

SecPerMinute == 60
SecPerHour == 3600
SecPerDay == 86400

\* datetime.strptime('2015/01/17 07:00:00') as seconds of the day
DefaultStart == 25200

\* timedelta(days=d, hours=h), in seconds
Timedelta(d, h) == d * SecPerDay + h * SecPerHour

\* t.second
Second(tt) == tt % SecPerMinute

\* datetime.strftime(t, '%Y_%m_%d_%H_%M_%S_'): the fields of the stamp, the
\* date as the day number
Strftime(tt) ==
    << tt \div SecPerDay, (tt % SecPerDay) \div SecPerHour,
       (tt % SecPerHour) \div SecPerMinute, tt % SecPerMinute >>

----------------------------------------------------------------------------
(* get_png: the conversion of the region of interest and the rotation rate *)

\* arcperpx, in micro-arcsec per pixel
ArcPerPx == 600714

\* (c - 600) * arcperpx * 4096 / 1200, in micro-arcsec: 4096/1200 = 256/75
PxToArcsec(c) == (((c - 600) * ArcPerPx) \div 75) * 256

\* A, B, C in milli-degrees per day
RotA == 14713
RotB == -2396
RotC == -1787

\* A + B*sin(lat/60)**2 + C*sin(lat/60)**4 in micro-degrees per day, for
\* s2 = sin(lat/60)**2 in thousandths
DegPerDay(s2) == RotA * 1000 + RotB * s2 + (RotC * s2 * s2) \div 1000

\* rotdays = 180/rate ; xoffset = 2460/rotdays/2/3600, that is
\* rate * 2460 / (180*2*3600) = rate * 41 / 21600, in micro-arcsec per 12 s
XoffsetOf(rate) == (rate * 41) \div 21600

\* SkipShift with the days counted as hours
SkipShiftDaysAsHours(d, h, xo) == (d + h) * 300 * xo

\* the x-offset the skip-ahead adds: (skipdays*24+skiphours)*300*xoffset
SkipShift(d, h, xo) == (d * 24 + h) * 300 * xo

----------------------------------------------------------------------------
(* get_png: rrule(SECONDLY, dtstart, until) filtered by t.second%12 == 0 *)

\* the guard of line 140
IsCadence(tt) == Second(tt) % 12 = 0

\* the first instant at or after tt that passes the guard of line 140
NextCadence(tt) == CHOOSE u \in tt..(tt + 11) : IsCadence(u)

----------------------------------------------------------------------------
(* The file system and the archive client.                                 *)
(*                                                                         *)
(* A download writes thousands of frames, so the frames on disk and the    *)
(* requests sent are kept run-length encoded.  Both encodings are          *)
(* lossless: they record whatever the code does, step by step.             *)
(*   files:    a record [path, tag, lo, hi] stands for the files           *)
(*             <Strftime(u)><tag>.png of directory path, for u = lo,       *)
(*             lo + 12, ..., hi.                                           *)
(*   requests: a record [pass, query, y0, t, x0, n, dt, dx] stands for n   *)
(*             consecutive requests of one channel pass, the k-th of them  *)
(*             (k = 0..n-1) for instant t + k*dt at x-offset x0 + k*dx.    *)
(***************************************************************************)

\* the stride of a run of frame files
FileStride == 12

\* subdir: start.split(' ')[0], the date of the start instant
Subdir(start) == start \div SecPerDay

\* path: basedir+subdir+str(wv)+'/'
Path(start, wv) == << Subdir(start), wv >>

\* the tag of the file hv.download_png writes for channel wv:
\* <stamp>AIA_<wv>.png, or <stamp>HMI_Mag.png for hmi
FrameTag(wv) == IF wv = "hmi" THEN "HMI_Mag" ELSE "AIA_" \o wv

\* the file system after download_png(..., overwrite=True) wrote the frame
\* of instant tt with tag tag into directory path
WriteFrame(fs, path, tag, tt) ==
    LET same == { f \in fs : f.path = path /\ f.tag = tag }
        held == { f \in same : /\ f.lo <= tt /\ tt <= f.hi
                               /\ (tt - f.lo) % FileStride = 0 }
        grow == { f \in same : f.hi + FileStride = tt }
    IN  IF held # {} THEN fs
        ELSE IF grow # {}
             THEN LET f == CHOOSE g \in grow : TRUE
                  IN  (fs \ {f}) \cup { [f EXCEPT !.hi = tt] }
             ELSE fs \cup { [path |-> path, tag |-> tag, lo |-> tt, hi |-> tt] }

\* os.path.isfile(path + <stamp> + tag + '.png')
IsFile(fs, path, stamp, tag) ==
    \E f \in fs :
        /\ f.path = path /\ f.tag = tag
        /\ \E k \in 0..((f.hi - f.lo) \div FileStride) :
              Strftime(f.lo + k * FileStride) = stamp

\* the condition of the continue of line 128
AlreadyDownloaded(path, wv, endstr) ==
    \/ IsFile(files, path, endstr, "AIA_" \o wv)
    \/ IsFile(files, path, endstr, "HMI_Mag")

\* the query string of lines 143 and 145
Query(wv) == IF wv = "hmi" THEN "[SDO,HMI,HMI,magnetogram,1,100]"
                           ELSE "[SDO,AIA,AIA," \o wv \o ",1,100]"

\* the last request a run of requests stands for
LastT(s) == s.t + (s.n - 1) * s.dt
LastX(s) == s.x0 + (s.n - 1) * s.dx

\* the log after hv.download_png(tt, 0.6, q, x0=x, y0=y, ...) of pass p
Issue(log, p, q, tt, x, y) ==
    LET one == [pass |-> p, query |-> q, y0 |-> y, t |-> tt, x0 |-> x,
                n |-> 1, dt |-> 0, dx |-> 0]
    IN  IF log = << >> THEN << one >>
        ELSE LET s == log[Len(log)]
                 fits == /\ s.pass = p /\ s.query = q /\ s.y0 = y
                         /\ \/ s.n = 1
                            \/ (tt - LastT(s) = s.dt /\ x - LastX(s) = s.dx)
             IN  IF fits
                 THEN [log EXCEPT ![Len(log)] =
                         [s EXCEPT !.n = s.n + 1,
                                   !.dt = tt - LastT(s),
                                   !.dx = x - LastX(s)]]
                 ELSE Append(log, one)

----------------------------------------------------------------------------
(* get_png *)

\* ChannelStartX without the reset of line 123
ChannelStartXCarried == xcenter

\* line 123: the running offset every channel starts from
ChannelStartX == xcenterinit

\* SkipAfterUse without the reset of lines 135-136
SkipKept(s) == s

\* lines 135-136: the value skipdays and skiphours hold after a channel
\* applied them
SkipAfterUse(s) == 0

\* AdvanceX with the request issued before the offset is advanced
AdvanceXStale(x, xo) == x

\* line 141: the running offset after one cadence step
AdvanceX(x, xo) == x + xo

\* RruleYields with until excluded
RruleYieldsBefore(tt, until) == tt < until

\* rrule(..., until=enddt) yields tt: until is inclusive
RruleYields(tt, until) == tt <= until

\* lines 78-115: everything before the loop over the channels
Call ==
    /\ pc = "idle"
    /\ calls < Len(script)
    /\ LET c == script[calls + 1] IN
        /\ xcenterinit' = PxToArcsec(c.xcenter)
        /\ xcenter' = PxToArcsec(c.xcenter)
        /\ ycenter' = PxToArcsec(c.ycenter)
        /\ startdt' = c.start
        /\ enddt' = c.end
        /\ wavelength' = c.wavelength
        /\ skipdays' = c.skipdays
        /\ skiphours' = c.skiphours
        /\ xoffset' = XoffsetOf(DegPerDay(c.sin2))
    /\ calls' = calls + 1
    /\ wi' = 1
    /\ pc' = "for_wv"
    /\ UNCHANGED << script, t, dirs, files, requests, passes, movvars >>

\* lines 117-128: a channel whose final frame is on disk is skipped
SkipChannel ==
    /\ pc = "for_wv"
    /\ wi <= Len(wavelength)
    /\ LET wv == wavelength[wi]
           path == Path(startdt, wv) IN
        /\ AlreadyDownloaded(path, wv, Strftime(enddt))
        /\ dirs' = dirs \cup {path}
    /\ xcenter' = ChannelStartX
    /\ wi' = wi + 1
    /\ UNCHANGED << script, calls, pc, startdt, enddt, wavelength, skipdays,
                    skiphours, xcenterinit, ycenter, xoffset, t, files,
                    requests, passes, movvars >>

\* lines 117-139: a channel that is not skipped applies the skip-ahead and
\* starts its rrule
BeginChannel ==
    /\ pc = "for_wv"
    /\ wi <= Len(wavelength)
    /\ LET wv == wavelength[wi]
           path == Path(startdt, wv)
           startdttemp == startdt + Timedelta(skipdays, skiphours)
           x == ChannelStartX + SkipShift(skipdays, skiphours, xoffset) IN
        /\ ~ AlreadyDownloaded(path, wv, Strftime(enddt))
        /\ dirs' = dirs \cup {path}
        /\ xcenter' = x
        /\ t' = startdttemp
        /\ passes' = Append(passes,
               [call |-> calls, wv |-> wv, start |-> startdt, until |-> enddt,
                skip |-> << skipdays, skiphours >>, from |-> startdttemp,
                xinit |-> xcenterinit, x |-> x, delta |-> xoffset])
    /\ skipdays' = SkipAfterUse(skipdays)
    /\ skiphours' = SkipAfterUse(skiphours)
    /\ pc' = "download"
    /\ UNCHANGED << script, calls, startdt, enddt, wavelength, xcenterinit,
                    ycenter, xoffset, wi, files, requests, movvars >>

\* lines 139-145: rrule runs on to the next instant that passes line 140;
\* the offset is advanced and the frame is requested and written
Download ==
    /\ pc = "download"
    /\ LET wv == wavelength[wi]
           tn == NextCadence(t)
           x == AdvanceX(xcenter, xoffset) IN
        /\ RruleYields(tn, enddt)
        /\ xcenter' = x
        /\ requests' = Issue(requests, Len(passes), Query(wv), tn, x, ycenter)
        /\ files' = WriteFrame(files, Path(startdt, wv), FrameTag(wv), tn)
        /\ t' = tn + 1
    /\ UNCHANGED << script, calls, pc, startdt, enddt, wavelength, skipdays,
                    skiphours, xcenterinit, ycenter, xoffset, wi, dirs,
                    passes, movvars >>

\* line 139: rrule is exhausted, the loop over the channels goes on
EndChannel ==
    /\ pc = "download"
    /\ ~ RruleYields(NextCadence(t), enddt)
    /\ wi' = wi + 1
    /\ pc' = "for_wv"
    /\ UNCHANGED << script, calls, startdt, enddt, wavelength, skipdays,
                    skiphours, xcenterinit, ycenter, xoffset, xcenter, t,
                    dirs, files, requests, passes, movvars >>

\* line 117: the loop over the channels is exhausted, get_png returns
Return ==
    /\ pc = "for_wv"
    /\ wi > Len(wavelength)
    /\ pc' = "idle"
    /\ UNCHANGED << script, calls, startdt, enddt, wavelength, skipdays,
                    skiphours, xcenterinit, ycenter, xoffset, wi, xcenter, t,
                    dirs, files, requests, passes, movvars >>

NextAcq == Call \/ SkipChannel \/ BeginChannel \/ Download \/ EndChannel
              \/ Return

----------------------------------------------------------------------------
(* mk_movie *)

\* the default wavelength list of line 217, as str(wv) values
DefaultWavelength ==
    << "94", "131", "171", "193", "211", "304", "335", "1600", "hmi" >>

\* the default wavestamp of line 221
DefaultWavestamp == "171"

\* LengthOk with the lists allowed to be longer
LengthOkAtLeast(m, wl) ==
    /\ ~ (m = "3x3" /\ Len(wl) < 9)
    /\ ~ (m = "2x2" /\ Len(wl) < 4)

\* lines 268-272: the length checks pass
LengthOk(m, wl) ==
    /\ ~ (m = "3x3" /\ Len(wl) # 9)
    /\ ~ (m = "2x2" /\ Len(wl) # 4)

\* GoesOn with the exit status checked, as subprocess.check_call does
GoesOnIfZero(status) == status = 0

\* lines 294, 300, 307, 311: subprocess.call returns the exit status and
\* the code drops it, so mk_movie goes on whatever the status is
GoesOn(status) == TRUE

\* the exit statuses of an ffmpeg run
ExitStatuses == {0, 1}

\* line 291: the channel is read from its -timestamped directory
Stamped(wv) == wv = wavestamp /\ timestamp

\* lines 293 and 299: the glob the frames of channel wv are read from
FrameGlob(wv) == IF Stamped(wv) THEN wv \o "-timestamped/*.png"
                                ELSE wv \o "/*.png"

\* lines 293 and 299: the movie of channel wv
MovieFile(wv) == IF Stamped(wv) THEN "individual/aia" \o wv \o "movie_timestamp.mp4"
                                ELSE "individual/aia" \o wv \o "movie.mp4"

\* the pad [k:v] of the k-th input of an ffmpeg command, k counted from 0
Pad(k) == << "0:v", "1:v", "2:v", "3:v", "4:v", "5:v", "6:v", "7:v", "8:v" >>[k + 1]

\* Graph3x3 with rows stacked first
Graph3x3Rows ==
    << [ins |-> << Pad(0), Pad(1), Pad(2) >>, op |-> "hstack", out |-> "row0"],
       [ins |-> << Pad(3), Pad(4), Pad(5) >>, op |-> "hstack", out |-> "row1"],
       [ins |-> << Pad(6), Pad(7), Pad(8) >>, op |-> "hstack", out |-> "row2"],
       [ins |-> << "row0", "row1", "row2" >>, op |-> "vstack", out |-> "v"] >>

\* line 306: the filter graph of the 3x3 mosaic
Graph3x3 ==
    << [ins |-> << Pad(0), Pad(1), Pad(2) >>, op |-> "vstack", out |-> "col0"],
       [ins |-> << Pad(3), Pad(4), Pad(5) >>, op |-> "vstack", out |-> "col1"],
       [ins |-> << Pad(6), Pad(7), Pad(8) >>, op |-> "vstack", out |-> "col2"],
       [ins |-> << "col0", "col1", "col2" >>, op |-> "hstack", out |-> "v"] >>

\* Graph2x2 with rows stacked first
Graph2x2Rows ==
    << [ins |-> << Pad(0), Pad(1) >>, op |-> "hstack", out |-> "row0"],
       [ins |-> << Pad(2), Pad(3) >>, op |-> "hstack", out |-> "row1"],
       [ins |-> << "row0", "row1" >>, op |-> "vstack", out |-> "v"] >>

\* line 310: the filter graph of the 2x2 mosaic
Graph2x2 ==
    << [ins |-> << Pad(0), Pad(1) >>, op |-> "vstack", out |-> "col0"],
       [ins |-> << Pad(2), Pad(3) >>, op |-> "vstack", out |-> "col1"],
       [ins |-> << "col0", "col1" >>, op |-> "hstack", out |-> "v"] >>

\* lines 253-282: the length checks fail and mk_movie raises
MkRaise ==
    /\ mpc = "start"
    /\ ~ LengthOk(mode, mwavelength)
    /\ raised' = TRUE
    /\ mpc' = "raised"
    /\ UNCHANGED << mode, mwavelength, timestamp, wavestamp, mi, readin,
                    outdirs, invocations, acqvars >>

\* lines 253-288: the length checks pass, the output directory is made
MkSetup ==
    /\ mpc = "start"
    /\ LengthOk(mode, mwavelength)
    /\ outdirs' = outdirs \cup {"individual/"}
    /\ readin' = << >>
    /\ mi' = 1
    /\ mpc' = "for_wv"
    /\ UNCHANGED << mode, mwavelength, timestamp, wavestamp, invocations,
                    raised, acqvars >>

\* lines 290-302: one channel is encoded and its movie joins readin
MkEncode ==
    /\ mpc = "for_wv"
    /\ mi <= Len(mwavelength)
    /\ \E status \in ExitStatuses :
        /\ invocations' = Append(invocations,
              [kind |-> "channel", input |-> << FrameGlob(mwavelength[mi]) >>,
               graph |-> << >>, output |-> MovieFile(mwavelength[mi]),
               status |-> status])
        /\ mpc' = IF GoesOn(status) THEN "for_wv" ELSE "aborted"
    /\ readin' = Append(readin, MovieFile(mwavelength[mi]))
    /\ mi' = mi + 1
    /\ UNCHANGED << mode, mwavelength, timestamp, wavestamp, outdirs, raised,
                    acqvars >>

\* lines 304-311: the movies of readin are tiled, and mk_movie returns
MkComposite ==
    /\ mpc = "for_wv"
    /\ mi > Len(mwavelength)
    /\ \/ /\ mode = "3x3"
          /\ \E status \in ExitStatuses :
              /\ invocations' = Append(invocations,
                    [kind |-> "composite", input |-> readin,
                     graph |-> Graph3x3,
                     output |-> "aiapanel_" \o mode \o "_movie.mp4",
                     status |-> status])
              /\ mpc' = IF GoesOn(status) THEN "done" ELSE "aborted"
       \/ /\ mode = "2x2"
          /\ \E status \in ExitStatuses :
              /\ invocations' = Append(invocations,
                    [kind |-> "composite", input |-> readin,
                     graph |-> Graph2x2,
                     output |-> "aiapanel_" \o mode \o "_movie.mp4",
                     status |-> status])
              /\ mpc' = IF GoesOn(status) THEN "done" ELSE "aborted"
       \/ /\ mode \notin {"3x3", "2x2"}
          /\ invocations' = invocations
          /\ mpc' = "done"
    /\ UNCHANGED << mode, mwavelength, timestamp, wavestamp, mi, readin,
                    outdirs, raised, acqvars >>

NextMovie == MkRaise \/ MkSetup \/ MkEncode \/ MkComposite

----------------------------------------------------------------------------
(* ffmpeg: where a filter graph of vstack and hstack filters puts its      *)
(* inputs.  A picture is a set of tiles << input, row, column >> with its  *)
(* height h and width w in tiles; rows count from the top, columns from    *)
(* the left.  vstack puts its inputs below one another in the order given, *)
(* hstack puts them side by side from the left in the order given.         *)
(***************************************************************************)

MaxInputs == 9

\* the picture of input pad [k:v]
InputPicture(k) == [tiles |-> { << k, 0, 0 >> }, h |-> 1, w |-> 1]

RECURSIVE Stack(_, _, _)
\* the pictures pics (a sequence) stacked by op onto the picture acc
Stack(op, pics, acc) ==
    IF pics = << >> THEN acc
    ELSE LET p == Head(pics)
             moved == IF op = "vstack"
                      THEN { << c[1], c[2] + acc.h, c[3] >> : c \in p.tiles }
                      ELSE { << c[1], c[2], c[3] + acc.w >> : c \in p.tiles }
             next == IF op = "vstack"
                     THEN [tiles |-> acc.tiles \cup moved, h |-> acc.h + p.h,
                           w |-> IF acc.w > p.w THEN acc.w ELSE p.w]
                     ELSE [tiles |-> acc.tiles \cup moved, w |-> acc.w + p.w,
                           h |-> IF acc.h > p.h THEN acc.h ELSE p.h]
         IN  Stack(op, Tail(pics), next)

RECURSIVE PictureOf(_, _, _)
\* the picture label names after the first n filters of graph ran
PictureOf(graph, n, label) ==
    IF \E k \in 0..(MaxInputs - 1) : Pad(k) = label
    THEN InputPicture(CHOOSE k \in 0..(MaxInputs - 1) : Pad(k) = label)
    ELSE LET made == { i \in 1..n : graph[i].out = label }
             i == CHOOSE j \in made : TRUE
             f == graph[i]
         IN  Stack(f.op,
                   [j \in 1..Len(f.ins) |-> PictureOf(graph, i - 1, f.ins[j])],
                   [tiles |-> {}, h |-> 0, w |-> 0])

\* the picture -map "[v]" writes
Mosaic(graph) == PictureOf(graph, Len(graph), "v")

\* the << row, column >> of input k in the mosaic
CellOf(graph, k) ==
    LET c == CHOOSE d \in Mosaic(graph).tiles : d[1] = k IN << c[2], c[3] >>

----------------------------------------------------------------------------
(* The driver programs *)

\* xcenter and ycenter the drivers pass, in pixels (lines 28-29, rounded)
XCenters == {941}
YCenters == {746}

\* sin(lat/60)**2 of the region's latitude, in thousandths: lat is within
\* [-90, 90], so lat/60 is within [-1.5, 1.5]
Sin2Values == {0, 500, 995}

Regions == [xcenter : XCenters, ycenter : YCenters, sin2 : Sin2Values]

GetPng(r, start, end, wl, d, h) ==
    [start |-> start, end |-> end, wavelength |-> wl,
     xcenter |-> r.xcenter, ycenter |-> r.ycenter, sin2 |-> r.sin2,
     skipdays |-> d, skiphours |-> h]

Starts == {DefaultStart, DefaultStart + 5}
WindowLengths == {6 * k : k \in 1..(2 * MaxTailSteps)}
ChannelLists == { << "171" >>, << "171", "hmi" >>, << "304", "171", "hmi" >> }

\* one get_png call, or two over the same region from the same start
ShortScripts ==
    { << GetPng(r, s, s + n, wl, 0, 0) >> :
        r \in Regions, s \in Starts, n \in WindowLengths, wl \in ChannelLists }
    \cup
    { << GetPng(r, s, s + w[1], w[2], 0, 0), GetPng(r, s, s + w[3], w[4], 0, 0) >> :
        r \in Regions, s \in Starts,
        w \in WindowLengths \X ChannelLists \X WindowLengths \X ChannelLists }

Idle ==
    /\ calls = 0
    /\ pc = "idle"
    /\ startdt = 0 /\ enddt = 0 /\ wavelength = << >>
    /\ skipdays = 0 /\ skiphours = 0
    /\ xcenterinit = 0 /\ ycenter = 0 /\ xoffset = 0
    /\ wi = 0 /\ xcenter = 0 /\ t = 0
    /\ dirs = {} /\ files = {} /\ requests = << >> /\ passes = << >>

MovieIdle ==
    /\ mpc = "idle" /\ mode = "" /\ mwavelength = << >>
    /\ timestamp = FALSE /\ wavestamp = "" /\ mi = 0 /\ readin = << >>
    /\ outdirs = {} /\ invocations = << >> /\ raised = FALSE

Init == script \in ShortScripts /\ Idle /\ MovieIdle

\* the skip-aheads a driver resumes with
Cursors == (0..MaxSkipDays) \X (0..MaxSkipHours)

\* the region of the long downloads
LongRegions == { r \in Regions : r.sin2 = 500 }

\* a download of channel 171 resumed with a skip-ahead, its window ending
\* 24 s after the instant skipped to, followed over the same window by
\* either the download of another channel from the start of the window, or
\* the download of three channels resumed with the same skip-ahead
ResumeScripts ==
    { << GetPng(r, s, s + Timedelta(c[1], c[2]) + 24, << "171" >>, c[1], c[2]),
         GetPng(r, s, s + Timedelta(c[1], c[2]) + 24, << "304" >>, 0, 0) >> :
        r \in LongRegions, s \in Starts, c \in Cursors }
    \cup
    { << GetPng(r, s, s + Timedelta(c[1], c[2]) + 24, << "171" >>, c[1], c[2]),
         GetPng(r, s, s + Timedelta(c[1], c[2]) + 24,
                << "171", "304", "hmi" >>, c[1], c[2]) >> :
        r \in LongRegions, s \in {DefaultStart}, c \in Cursors }

InitResume == script \in ResumeScripts /\ Idle /\ MovieIdle

SpecResume == InitResume /\ [][NextAcq]_vars

\* the mk_movie calls of the drivers
Modes == {"3x3", "2x2", "1x1", "singular"}
MovieLists ==
    { DefaultWavelength, SubSeq(DefaultWavelength, 1, 8),
      SubSeq(DefaultWavelength, 1, 4), SubSeq(DefaultWavelength, 2, 4),
      << "171", "hmi", "304", "94" >> }

InitMovie ==
    /\ script = << >> /\ Idle
    /\ mpc = "start"
    /\ mode \in Modes
    /\ mwavelength \in MovieLists
    /\ timestamp \in BOOLEAN
    /\ wavestamp \in {DefaultWavestamp, "hmi"}
    /\ mi = 0 /\ readin = << >> /\ outdirs = {} /\ invocations = << >>
    /\ raised = FALSE

SpecMovie == InitMovie /\ [][NextMovie]_vars

Spec == Init /\ [][NextAcq]_vars

----------------------------------------------------------------------------
(* Reading the log of requests *)

\* pass p is over: its rrule is exhausted
PassDone(p) == p < Len(passes) \/ pc # "download"

\* the runs of requests of pass p, as indices of the log
SegsOf(p) == { i \in DOMAIN requests : requests[i].pass = p }

RECURSIVE SumN(_)
SumN(S) == IF S = {} THEN 0
           ELSE LET i == CHOOSE j \in S : TRUE
                IN  requests[i].n + SumN(S \ {i})

\* the number of requests pass p issued so far
NumRequests(p) == SumN(SegsOf(p))

\* the number of requests pass requests[i].pass issued before run i
Before(i) == SumN({ j \in SegsOf(requests[i].pass) : j < i })

\* the first request of pass p, which issued one
FirstSeg(p) == requests[CHOOSE i \in SegsOf(p) : \A j \in SegsOf(p) : i <= j]

\* the x-offsets of the requests of pass p for instant tt
XAt(p, tt) ==
    UNION { LET s == requests[i] IN
            IF s.n > 1 /\ s.dt > 0
            THEN IF /\ tt >= s.t /\ (tt - s.t) % s.dt = 0
                    /\ (tt - s.t) \div s.dt < s.n
                 THEN { s.x0 + ((tt - s.t) \div s.dt) * s.dx }
                 ELSE {}
            ELSE { s.x0 + k * s.dx : k \in { j \in 0..(s.n - 1) : s.t + j * s.dt = tt } }
          : i \in SegsOf(p) }

\* the requests of pass p as (instant, x-offset, y-offset) runs, in order
IsOfPass(p, s) == s.pass = p
TraceOf(p) ==
    LET segs == SelectSeq(requests, LAMBDA s : IsOfPass(p, s))
    IN  [i \in DOMAIN segs |->
            << segs[i].t, segs[i].x0, segs[i].y0, segs[i].n, segs[i].dt,
               segs[i].dx >>]

\* the instants of a..b whose seconds are a multiple of 12
CadenceInstants(a, b) == { u \in a..b : (u % 60) % 12 = 0 }

----------------------------------------------------------------------------
(* C1 *)

\* C1, as stated: every channel pass of a get_png call with a zero
\* skip-ahead over a valid window issues floor((end - start) / 12) requests.
C1_FloorCount ==
    \A p \in DOMAIN passes :
        (PassDone(p) /\ passes[p].skip = << 0, 0 >>
            /\ passes[p].start < passes[p].until)
        => NumRequests(p) = (passes[p].until - passes[p].start) \div 12

\* C1, amended: every channel pass of a get_png call with a zero skip-ahead
\* over a valid window issues one request per instant of [start, end], both
\* ends included, whose seconds are a multiple of 12; for a start on such an
\* instant that is floor((end - start) / 12) + 1; the window 07:00:00 to
\* 07:00:24 with channel 171 yields 3 requests, at x0 + d, x0 + 2d, x0 + 3d.
C1_InclusiveCount ==
    \A p \in DOMAIN passes :
        LET q == passes[p] IN
        (PassDone(p) /\ q.skip = << 0, 0 >> /\ q.start < q.until)
        => /\ NumRequests(p) = Cardinality(CadenceInstants(q.start, q.until))
           /\ (q.start % 60) % 12 = 0
                => NumRequests(p) = (q.until - q.start) \div 12 + 1
           /\ (q.start = DefaultStart /\ q.until = DefaultStart + 24
                  /\ q.wv = "171")
                => /\ NumRequests(p) = 3
                   /\ XAt(p, DefaultStart) = { q.xinit + q.delta }
                   /\ XAt(p, DefaultStart + 12) = { q.xinit + 2 * q.delta }
                   /\ XAt(p, DefaultStart + 24) = { q.xinit + 3 * q.delta }

\* a pass over the window 07:00:00 to 07:00:24 for channel 171 is over
C1_Witness ==
    \E p \in DOMAIN passes :
        /\ PassDone(p) /\ passes[p].skip = << 0, 0 >>
        /\ passes[p].start = DefaultStart
        /\ passes[p].until = DefaultStart + 24
        /\ passes[p].wv = "171"
        /\ NumRequests(p) = 3

----------------------------------------------------------------------------
(* C3 *)

\* C3: within a channel pass the k-th request (k >= 1) carries the pass's
\* starting x-offset plus k times the per-step delta, the delta is
\* positive, the instants of the requests increase strictly, and the
\* running x-offset is the starting x-offset plus the delta times the
\* number of requests issued so far.
C3_OffsetTrack ==
    /\ \A i \in DOMAIN requests :
           LET s == requests[i]
               q == passes[s.pass] IN
           /\ q.delta > 0
           /\ s.x0 = q.x + (Before(i) + 1) * q.delta
           /\ s.n > 1 => (s.dx = q.delta /\ s.dt > 0)
           /\ \A j \in SegsOf(s.pass) : j < i => LastT(requests[j]) < s.t
    /\ pc = "download" =>
           xcenter = passes[Len(passes)].x
                       + NumRequests(Len(passes)) * passes[Len(passes)].delta

\* a pass has issued four requests
C3_Witness ==
    \E p \in DOMAIN passes : NumRequests(p) >= 4 /\ pc = "download"

----------------------------------------------------------------------------
(* C5 *)

\* C5, as stated: a channel a get_png call downloaded over a window from
\* its start to its end is skipped by every later call over the same
\* window: a later call issues no request for it.
C5_Idempotent ==
    \A p, q \in DOMAIN passes :
        (/\ passes[p].call < passes[q].call
         /\ passes[p].skip = << 0, 0 >>
         /\ passes[p].wv = passes[q].wv
         /\ passes[p].start = passes[q].start
         /\ passes[p].until = passes[q].until)
        => NumRequests(q) = 0

----------------------------------------------------------------------------
(* C10 *)

\* C10: every pass with a zero skip-ahead starts from the converted initial
\* x-offset, and two passes of one get_png call that both have a zero
\* skip-ahead issue the same requests (instant, x-offset, y-offset).
C10_ChannelsIndependent ==
    /\ \A p \in DOMAIN passes :
           passes[p].skip = << 0, 0 >> => passes[p].x = passes[p].xinit
    /\ \A p, q \in DOMAIN passes :
           (/\ p < q /\ PassDone(q)
            /\ passes[p].call = passes[q].call
            /\ passes[p].skip = << 0, 0 >> /\ passes[q].skip = << 0, 0 >>)
           => TraceOf(p) = TraceOf(q)

\* the third channel of a call has issued the requests its first has, three
\* or more
C10_Witness ==
    \E p, q \in DOMAIN passes :
        /\ q = p + 2 /\ PassDone(q)
        /\ passes[p].call = passes[q].call
        /\ NumRequests(p) >= 3
        /\ TraceOf(p) = TraceOf(q)

----------------------------------------------------------------------------
(* C2 *)

\* C2: the first request of a pass resumed with a skip-ahead of D days and
\* H hours carries the x-offset that a pass with a zero skip-ahead over the
\* same window and region carries for the same instant; such a pass, once
\* over, has exactly one request for that instant.
C2_ResumeContinuity ==
    \A p, q \in DOMAIN passes :
        (/\ passes[p].skip # << 0, 0 >> /\ SegsOf(p) # {}
         /\ passes[q].skip = << 0, 0 >>
         /\ passes[q].start = passes[p].start
         /\ passes[q].until = passes[p].until
         /\ passes[q].xinit = passes[p].xinit
         /\ passes[q].delta = passes[p].delta)
        => /\ XAt(q, FirstSeg(p).t) \subseteq { FirstSeg(p).x0 }
           /\ PassDone(q) => XAt(q, FirstSeg(p).t) = { FirstSeg(p).x0 }

\* a get_png call with a zero skip-ahead has reached the instant a call
\* resumed with at least a day and an hour began at
C2_Witness ==
    \E p, q \in DOMAIN passes :
        /\ passes[p].skip[1] >= 1 /\ passes[p].skip[2] >= 1
        /\ SegsOf(p) # {}
        /\ passes[q].call # passes[p].call
        /\ script[passes[q].call].skipdays = 0
        /\ script[passes[q].call].skiphours = 0
        /\ passes[q].start = passes[p].start
        /\ PassDone(q)
        /\ XAt(q, FirstSeg(p).t) = { FirstSeg(p).x0 }

----------------------------------------------------------------------------
(* C4 *)

\* C4: of the passes of one get_png call only the first carries the call's
\* skip-ahead: it starts the skip-ahead after the start of the window, at
\* the initial x-offset plus (skipdays*24 + skiphours) * 300 deltas; every
\* later pass of the call starts at the start of the window, at the initial
\* x-offset; and skipdays and skiphours are zero once a pass began.
C4_CursorOnce ==
    /\ \A p \in DOMAIN passes :
           LET q == passes[p]
               c == script[q.call]
               first == \A r \in 1..(p - 1) : passes[r].call # q.call IN
           /\ first => q.skip = << c.skipdays, c.skiphours >>
           /\ ~ first => q.skip = << 0, 0 >>
           /\ q.from = q.start + q.skip[1] * 86400 + q.skip[2] * 3600
           /\ q.x = q.xinit + (q.skip[1] * 24 + q.skip[2]) * 300 * q.delta
           /\ q.start = c.start
    /\ (pc = "download" \/ (calls > 0 /\ \E p \in DOMAIN passes : passes[p].call = calls))
           => (skipdays = 0 /\ skiphours = 0)

\* a call resumed with a skip-ahead skipped its first channel, resumed its
\* second and ran its third from the start of the window
C4_Witness ==
    \E p \in DOMAIN passes :
        /\ p + 1 \in DOMAIN passes
        /\ passes[p].call = passes[p + 1].call
        /\ passes[p].skip[1] >= 1
        /\ passes[p].wv = "304" /\ passes[p + 1].wv = "hmi"
        /\ PassDone(p + 1)
        /\ NumRequests(p + 1) > NumRequests(p)

----------------------------------------------------------------------------
(* Reading the log of ffmpeg runs *)

Composites == { i \in DOMAIN invocations : invocations[i].kind = "composite" }

\* the side of the grid a composite of n inputs tiles
Side(n) == IF n = 9 THEN 3 ELSE 2

\* the mode asks for a mosaic
Tiled == mode \in {"3x3", "2x2"}

\* the list has the length the mode asks for
RightLength ==
    /\ mode = "3x3" => Len(mwavelength) = 9
    /\ mode = "2x2" => Len(mwavelength) = 4

----------------------------------------------------------------------------
(* C6 *)

\* C6, as stated: the k-th input of the composite is the movie of the k-th
\* channel requested, and the mosaic puts it in row k div n, column k mod n
\* of the n x n grid (row-major).
C6_RowMajor ==
    \A i \in Composites :
        LET inv == invocations[i]
            n == Side(Len(inv.input)) IN
        \A k \in 0..(n * n - 1) :
            /\ inv.input[k + 1] = MovieFile(mwavelength[k + 1])
            /\ CellOf(inv.graph, k) = << k \div n, k % n >>

\* C6, amended: the k-th input of the composite is the movie of the k-th
\* channel requested, and the mosaic puts it in row k mod n, column k div n
\* of the n x n grid (column-major): the graph stacks the inputs n by n into
\* columns with vstack and the columns into the mosaic with hstack; input 0
\* is top-left and input n*n - 1 bottom-right.
C6_ColumnMajor ==
    \A i \in Composites :
        LET inv == invocations[i]
            n == Side(Len(inv.input)) IN
        /\ Len(inv.input) = n * n
        /\ Len(inv.graph) = n + 1
        /\ \A c \in 1..n :
              /\ inv.graph[c].op = "vstack"
              /\ inv.graph[c].ins = [r \in 1..n |-> Pad((c - 1) * n + r - 1)]
        /\ inv.graph[n + 1].op = "hstack"
        /\ inv.graph[n + 1].ins = [c \in 1..n |-> inv.graph[c].out]
        /\ \A k \in 0..(n * n - 1) :
              /\ inv.input[k + 1] = MovieFile(mwavelength[k + 1])
              /\ CellOf(inv.graph, k) = << k % n, k \div n >>
        /\ CellOf(inv.graph, 0) = << 0, 0 >>
        /\ CellOf(inv.graph, n * n - 1) = << n - 1, n - 1 >>

\* a 3x3 mosaic was tiled, its input 1 below its input 0
C6_Witness ==
    \E i \in Composites :
        /\ mode = "3x3" /\ Len(invocations[i].input) = 9
        /\ CellOf(invocations[i].graph, 1) = << 1, 0 >>

----------------------------------------------------------------------------
(* C7 *)

\* C7: in the 3x3 mosaic of the default wavelength list the movie of the
\* default stamped channel 171, input 2, is in the bottom row, left column.
C7_StampedBottomLeft ==
    \A i \in Composites :
        (mode = "3x3" /\ mwavelength = DefaultWavelength
            /\ wavestamp = DefaultWavestamp)
        => LET inv == invocations[i]
               k == (CHOOSE j \in DOMAIN mwavelength :
                        mwavelength[j] = DefaultWavestamp) - 1 IN
           /\ k = 2
           /\ inv.input[k + 1] = MovieFile(DefaultWavestamp)
           /\ Mosaic(inv.graph).h = 3 /\ Mosaic(inv.graph).w = 3
           /\ CellOf(inv.graph, k) = << Mosaic(inv.graph).h - 1, 0 >>

\* the 3x3 mosaic of the default list was tiled with the timestamped movie
\* of channel 171
C7_Witness ==
    \E i \in Composites :
        /\ mode = "3x3" /\ mwavelength = DefaultWavelength
        /\ wavestamp = DefaultWavestamp /\ timestamp
        /\ invocations[i].input[3] = "individual/aia171movie_timestamp.mp4"

----------------------------------------------------------------------------
(* C8 *)

\* C8: mk_movie raises exactly when the mode is 3x3 and the list is not 9
\* long or the mode is 2x2 and the list is not 4 long, and it raises before
\* it makes a directory or runs ffmpeg; otherwise it makes the directory;
\* a mode other than 3x3 and 2x2 never raises and never tiles.
C8_FailFast ==
    /\ raised => (outdirs = {} /\ invocations = << >> /\ ~ RightLength)
    /\ (mpc # "start" /\ ~ RightLength) => raised
    /\ (mpc # "start" /\ RightLength) => (~ raised /\ "individual/" \in outdirs)
    /\ ~ Tiled => (~ raised /\ Composites = {})

\* mk_movie raised for mode 3x3 and a list of 8
C8_Witness == raised /\ mode = "3x3" /\ Len(mwavelength) = 8

----------------------------------------------------------------------------
(* C9 *)

\* C9: past the length checks mk_movie never stops before its end: it runs
\* ffmpeg once per channel in the order of the list, whatever the exit
\* statuses, then once more for the mosaic when the mode asks for one, and
\* returns without raising.
C9_NeverHalts ==
    /\ mpc \in {"start", "raised", "for_wv", "done"}
    /\ mpc \in {"for_wv", "done"} =>
          /\ ~ raised
          /\ \A k \in 1..(mi - 1) :
                /\ invocations[k].kind = "channel"
                /\ invocations[k].output = MovieFile(mwavelength[k])
                /\ invocations[k].input = << FrameGlob(mwavelength[k]) >>
    /\ mpc = "for_wv" => Len(invocations) = mi - 1
    /\ mpc = "done" =>
          /\ mi = Len(mwavelength) + 1
          /\ Len(invocations) = Len(mwavelength) + (IF Tiled THEN 1 ELSE 0)
          /\ Tiled => Composites = { Len(invocations) }
    /\ mpc \in {"raised", "done"} \/ ENABLED NextMovie

\* mk_movie returned after every ffmpeg run of a 3x3 mosaic failed
C9_Witness ==
    /\ mpc = "done" /\ mode = "3x3" /\ Len(invocations) = 10
    /\ \A k \in DOMAIN invocations : invocations[k].status = 1

====
